---- MODULE Spec2Model ----
(***************************************************************************)
(* Model of cukex::transform (src/src/CucumberExpression.cpp): the         *)
(* Cucumber-Expression to regular-expression compiler.                     *)
(*                                                                         *)
(* A string is a sequence of one-character strings.  Positions in the      *)
(* expression (i, pos, fwdPos, closePos) are the C++ zero-based indexes;   *)
(* CharAt converts to the one-based indexing of TLA+ sequences.            *)
(***************************************************************************)
EXTENDS Integers, Sequences, FiniteSets, TLC

\* ------------------------------------------------------------------------
\* Characters
\* ------------------------------------------------------------------------
SP == " "
LB == "{"
RB == "}"
LP == "("
RP == ")"
SL == "/"
BS == "\\"

\* The metacharacter list without the two anchor characters.
RegexSpecialChars_WithoutAnchors == {".", "|", "(", ")", "[", "]", "{", "}", "*", "+", "?", "\\"}

\* The metacharacter list of ".^$|()[]{}*+?\\" (parse, escapeRegexChars,
\* parseAlternativeText all use the same literal).
RegexSpecialChars == {".", "^", "$", "|", "(", ")", "[", "]", "{", "}", "*", "+", "?", "\\"}

\* std::string::npos
npos == -1

CharAt(s, k) == s[k + 1]

\* s.substr(from, count) with from <= s.length()
Substr(s, from, count) == SubSeq(s, from + 1, from + count)

\* s.find(ch, from): least index >= from holding ch, or npos
Find(s, ch, from) ==
  LET hits == {k \in from..(Len(s) - 1) : CharAt(s, k) = ch}
  IN  IF hits = {} THEN npos ELSE CHOOSE k \in hits : \A m \in hits : k <= m

\* result.find(' ') in place of result.rfind(' '): the first occurrence.
RFind_First(s, ch) == Find(s, ch, 0)

\* s.rfind(ch): greatest index holding ch, or npos
RFind(s, ch) ==
  LET hits == {k \in 0..(Len(s) - 1) : CharAt(s, k) = ch}
  IN  IF hits = {} THEN npos ELSE CHOOSE k \in hits : \A m \in hits : k >= m

\* ------------------------------------------------------------------------
\* Parameter type registry
\* ------------------------------------------------------------------------
IntFragment == <<"-", "?", "\\", "d", "+">>
FloatFragment == <<"(", "?", "=", ".", "*", "\\", "d", ".", "*", ")", "[", "-", "+", "]", "?", "\\", "d", "*", "(", "?", ":", "\\", ".", "(", "?", "=", "\\", "d", ".", "*", ")", ")", "?", "\\", "d", "*", "(", "?", ":", "\\", "d", "+", "[", "E", "]", "[", "+", "-", "]", "?", "\\", "d", "+", ")", "?">>
WordFragment == <<"[", "^", "\\", "s", "]", "+">>
StringFragment == <<"\"", "(", "[", "^", "\"", "\\", "\\", "]", "*", "(", "\\", "\\", ".", "[", "^", "\"", "\\", "\\", "]", "*", ")", "*", ")", "\"", "|", "'", "(", "[", "^", "'", "\\", "\\", "]", "*", "(", "\\", "\\", ".", "[", "^", "'", "\\", "\\", "]", "*", ")", "*", ")", "'">>
AnonymousFragment == <<".", "*">>

\* The table without its alias entries (bigdecimal, double, biginteger, byte,
\* short, long).
PARAMETER_TYPES_WithoutAliases ==
  { <<<<"i", "n", "t">>, IntFragment>>,
    <<<<"f", "l", "o", "a", "t">>, FloatFragment>>,
    <<<<"w", "o", "r", "d">>, WordFragment>>,
    <<<<"s", "t", "r", "i", "n", "g">>, StringFragment>>,
    <<<<>>, AnonymousFragment>> }

\* The static map PARAMETER_TYPES returned by getParameterTypes(), as a set
\* of (name, fragment) pairs with unique names.
PARAMETER_TYPES ==
  { <<<<"i", "n", "t">>, IntFragment>>,
    <<<<"f", "l", "o", "a", "t">>, FloatFragment>>,
    <<<<"w", "o", "r", "d">>, WordFragment>>,
    <<<<"s", "t", "r", "i", "n", "g">>, StringFragment>>,
    <<<<"b", "i", "g", "d", "e", "c", "i", "m", "a", "l">>, FloatFragment>>,
    <<<<"d", "o", "u", "b", "l", "e">>, FloatFragment>>,
    <<<<"b", "i", "g", "i", "n", "t", "e", "g", "e", "r">>, IntFragment>>,
    <<<<"b", "y", "t", "e">>, IntFragment>>,
    <<<<"s", "h", "o", "r", "t">>, IntFragment>>,
    <<<<"l", "o", "n", "g">>, IntFragment>>,
    <<<<>>, AnonymousFragment>> }

\* ------------------------------------------------------------------------
\* Pure helpers of the parser
\* ------------------------------------------------------------------------
\* escapeRegexChars that copies the text without escaping anything.
escapeRegexChars_Unescaped(text) == text

RECURSIVE escapeRegexChars(_)
escapeRegexChars(text) ==
  IF text = <<>> THEN <<>>
  ELSE (IF Head(text) \in RegexSpecialChars THEN <<BS, Head(text)>> ELSE <<Head(text)>>)
       \o escapeRegexChars(Tail(text))

\* parseAlternativeText(text) from index i on.  The result is a record:
\* ok = FALSE when the "Empty optional text is not allowed" exception is
\* thrown, otherwise out is the rendered text.
RECURSIVE parseAlternativeTextFrom(_, _)
parseAlternativeTextFrom(text, i) ==
  IF i >= Len(text) THEN [ok |-> TRUE, out |-> <<>>]
  ELSE
    LET c == CharAt(text, i)
        closePos == Find(text, RP, i)
    IN  IF c = LP /\ closePos # npos
        THEN LET optionalContent == Substr(text, i + 1, closePos - i - 1)
                 rest == parseAlternativeTextFrom(text, closePos + 1)
             IN  IF optionalContent = <<>>
                 THEN [ok |-> FALSE, out |-> <<>>]
                 ELSE [ok |-> rest.ok,
                       out |-> <<LP, "?", ":">> \o escapeRegexChars(optionalContent)
                               \o <<RP, "?">> \o rest.out]
        ELSE LET rest == parseAlternativeTextFrom(text, i + 1)
             IN  [ok |-> rest.ok,
                  out |-> (IF c \in RegexSpecialChars THEN <<BS, c>> ELSE <<c>>) \o rest.out]

parseAlternativeText(text) == parseAlternativeTextFrom(text, 0)

\* ------------------------------------------------------------------------
\* collectAlternativesFromHere
\* ------------------------------------------------------------------------
\* The inner loop "while (i >= 0 && depth > 0)" that walks back over a
\* parenthesised span; i is unsigned, so only depth and the i == 0 break end it.
RECURSIVE BacktrackParen(_, _, _, _)
BacktrackParen(e, i, depth, current) ==
  IF depth <= 0 THEN [i |-> i, current |-> current]
  ELSE
    LET pch == CharAt(e, i)
        cur1 == <<pch>> \o current
        d1 == IF pch = RP THEN depth + 1 ELSE IF pch = LP THEN depth - 1 ELSE depth
    IN  IF i = 0 THEN [i |-> 0, current |-> cur1]
        ELSE BacktrackParen(e, i - 1, d1, cur1)

\* The first loop of collectAlternativesFromHere: the word before the slash,
\* read from index i of the expression downwards.
RECURSIVE Backtrack(_, _, _)
Backtrack(e, i, current) ==
  LET c == CharAt(e, i)
  IN  IF c = SP \/ c = LB THEN current
      ELSE IF c = RP
        THEN IF i = 0 THEN <<c>> \o current
             ELSE LET r == BacktrackParen(e, i - 1, 1, <<c>> \o current)
                  IN  Backtrack(e, r.i, r.current)
      ELSE IF c = LP THEN current
      ELSE IF i = 0 THEN <<c>> \o current
      ELSE Backtrack(e, i - 1, <<c>> \o current)

\* The second loop: alternatives collected forward from fwdPos.  The local
\* allWords of the source is written but never read, so it is not carried.
RECURSIVE CollectForward(_, _, _, _)
CollectForward(e, fwdPos, current, alternatives) ==
  LET finish == [alternatives |-> IF current # <<>> THEN Append(alternatives, current)
                                  ELSE alternatives,
                 fwdPos |-> fwdPos]
  IN  IF fwdPos >= Len(e) THEN finish
      ELSE
        LET c == CharAt(e, fwdPos)
        IN  IF c = SP \/ c = LB THEN finish
            ELSE IF c = LP /\ current = <<>> THEN finish
            ELSE IF c = LP
              THEN LET parenEnd == Find(e, RP, fwdPos)
                   IN  IF parenEnd # npos
                       THEN CollectForward(e, parenEnd + 1,
                                           current \o Substr(e, fwdPos, parenEnd - fwdPos + 1),
                                           alternatives)
                       ELSE CollectForward(e, fwdPos + 1, Append(current, c), alternatives)
            ELSE IF c = BS /\ fwdPos + 1 < Len(e) /\ CharAt(e, fwdPos + 1) = SL
              THEN CollectForward(e, fwdPos + 2, current, alternatives)
            ELSE IF c = SL
              THEN CollectForward(e, fwdPos + 1, <<>>,
                                  IF current # <<>> THEN Append(alternatives, current)
                                  ELSE alternatives)
            ELSE CollectForward(e, fwdPos + 1, Append(current, c), alternatives)

\* collectAlternativesFromHere(startPos), given the word the backtracking
\* loop produced; the returned fwdPos is the value stored into pos.
collectAlternativesFromHere(e, startPos, firstWord) ==
  CollectForward(e, startPos + 1, <<>>,
                 IF firstWord # <<>> THEN <<firstWord>> ELSE <<>>)

\* The loop of parseAlternatives that renders "alt1|alt2|..." from index k on.
RECURSIVE RenderAlternatives(_, _)
RenderAlternatives(alternatives, k) ==
  IF k > Len(alternatives) THEN [ok |-> TRUE, out |-> <<>>]
  ELSE LET one == parseAlternativeText(alternatives[k])
           rest == RenderAlternatives(alternatives, k + 1)
       IN  [ok |-> one.ok /\ rest.ok,
            out |-> (IF k > 1 THEN <<"|">> ELSE <<>>) \o one.out \o rest.out]

\* ------------------------------------------------------------------------
\* validateRegex: std::regex(regex) does not throw.  The ECMAScript grammar
\* is checked as far as the emitted text can violate it: escapes complete,
\* bracket expressions closed, groups balanced, quantifiers after an atom.
\* Indexes here are the one-based indexes of the sequence.
\* ------------------------------------------------------------------------
MaxOf(S) == CHOOSE x \in S : \A y \in S : x >= y

\* esc[k]: regex[k] is the second character of an escape pair, that is, an
\* odd number of backslashes stands directly in front of it.
EscapedAt(regex) ==
  [k \in 1..Len(regex) |->
     LET others == {j \in 1..(k - 1) : regex[j] # BS}
         run == (k - 1) - (IF others = {} THEN 0 ELSE MaxOf(others))
     IN  run % 2 = 1]

\* inb[k]: regex[k] lies in a bracket expression (its closing bracket
\* included): the last unescaped "[" before k follows the last unescaped "]".
InBracketAt(regex, esc) ==
  [k \in 1..(Len(regex) + 1) |->
     LET opens == {j \in 1..(k - 1) : regex[j] = "[" /\ ~esc[j]}
         closes == {j \in 1..(k - 1) : regex[j] = "]" /\ ~esc[j]}
     IN  opens # {} /\ (closes = {} \/ MaxOf(closes) < MaxOf(opens))]

validateRegex(regex) ==
  LET n == Len(regex)
      esc == EscapedAt(regex)
      inb == InBracketAt(regex, esc)
      syntax(k) == ~esc[k] /\ ~inb[k]
      opens == {k \in 1..n : syntax(k) /\ regex[k] = LP}
      closes == {k \in 1..n : syntax(k) /\ regex[k] = RP}
      modifier(k) == k > 1 /\ regex[k] = "?" /\ (k - 1) \in opens
      tag(k) == k > 2 /\ regex[k] \in {":", "=", "!"} /\ modifier(k - 1)
      quantifier(k) == syntax(k) /\ regex[k] \in {"*", "+", "?"} /\ ~modifier(k)
      atomAt(k) == \/ esc[k]
                   \/ inb[k]
                   \/ /\ regex[k] \notin {LP, "|", "^", "$", BS, "["}
                      /\ ~quantifier(k) /\ ~modifier(k) /\ ~tag(k)
      repeatable(k) == /\ k > 1
                       /\ \/ atomAt(k - 1)
                          \/ /\ regex[k] = "?" /\ quantifier(k - 1)
                             /\ k > 2 /\ atomAt(k - 2)
  IN  /\ n = 0 \/ regex[n] # BS \/ esc[n]
      /\ ~inb[n + 1]
      /\ Cardinality(opens) = Cardinality(closes)
      /\ \A k \in closes :
           Cardinality({j \in opens : j < k}) > Cardinality({j \in closes : j < k})
      /\ \A k \in 1..n : quantifier(k) => repeatable(k)

\* ------------------------------------------------------------------------
\* Inputs
\* ------------------------------------------------------------------------
MaxLen == 4
MaxPieces == 3
MaxCalls == 2

\* Every string of at most MaxLen characters over the syntax characters, two
\* letters and one regex metacharacter.
RawChars == {"a", "b", SP, LB, RB, LP, RP, SL, BS, "."}
RawInputs == UNION {[1..n -> RawChars] : n \in 0..MaxLen}

\* Every concatenation of at most MaxPieces pieces: letters, the space, the
\* separator, optional spans, escapes and a parameter.
Pieces ==
  { <<"a">>, <<"b">>, <<SP>>, <<SL>>, <<LP, "c", RP>>, <<LP, "c", SP, "d", RP>>,
    <<BS, SL>>, <<BS, RP>>, <<LB, "i", "n", "t", RB>> }

RECURSIVE Concatenations(_)
Concatenations(n) ==
  IF n = 0 THEN {<<>>}
  ELSE LET shorter == Concatenations(n - 1)
       IN  shorter \cup {s \o p : s \in shorter, p \in Pieces}

PieceInputs == Concatenations(MaxPieces)

\* The expressions the repository's tests and the documentation use.
TestInputs ==
  { <<"a">>,
    <<"{", "i", "n", "t", "}">>,
    <<"(", "a", ")">>,
    <<"a", "/", "b", " ", "c", "/", "d", "/", "e">>,
    <<"a", "/", "b", "(", "c", ")">>,
    <<"m", "a", "t", "c", "h", " ", "{", "}">>,
    <<"a", "r", "r", "a", "y", " ", "[", "0", "]">>,
    <<"a", " ", "|", " ", "b">>,
    <<"(", "a", "|", "b", ")">>,
    <<"c", "(", "a", "|", "b", ")", "d">>,
    <<"r", "a", "t", "(", "s", ")", "/", "m", "o", "u", "s", "e", "/", "m", "i", "c", "e">>,
    <<"m", "o", "u", "s", "e", "/", "m", "i", "c", "e", "/", "r", "a", "t", "(", "s", ")">>,
    <<"m", "o", "u", "s", "e", "/", "r", "a", "t", "(", "s", ")", "/", "m", "i", "c", "e">>,
    <<"{", "u", "n", "k", "n", "o", "w", "n", "}">>,
    <<"t", "e", "s", "t", " ", "\\", "(", " ", "\\", "{", " ", "\\", "/", " ", "e", "s", "c", "a", "p", "e", "d">>,
    <<"m", "i", "c", "e", "/", "r", "a", "t", "s", " ", "a", "n", "d", " ", "r", "a", "t", "s", "\\", "/", "m", "i", "c", "e">>,
    <<"^", "$", "[", "]", "\\", "(", "\\", ")", "{", "}", "\\", "\\", ".", "|", "?", "*", "+">>,
    <<"I", " ", "h", "a", "v", "e", " ", "{", "i", "n", "t", "}", " ", "c", "u", "c", "u", "m", "b", "e", "r", "s">>,
    <<"{", "f", "l", "o", "a", "t", "}">>,
    <<"{", "d", "o", "u", "b", "l", "e", "}">>,
    <<"{", "b", "i", "g", "d", "e", "c", "i", "m", "a", "l", "}">>,
    <<"{", "w", "o", "r", "d", "}">>,
    <<"{", "s", "t", "r", "i", "n", "g", "}">>,
    <<"{", "b", "i", "g", "i", "n", "t", "e", "g", "e", "r", "}">>,
    <<"{", "b", "y", "t", "e", "}">>,
    <<"{", "s", "h", "o", "r", "t", "}">>,
    <<"{", "l", "o", "n", "g", "}">>,
    <<"{", "}">>,
    <<"{", " ", "i", "n", "t", " ", "}">>,
    <<"{", "i", "n", "t", "-", "e", "x", "t", "r", "a", "}">>,
    <<"{", "I", "n", "t", "}">>,
    <<"t", "h", "r", "e", "e", " ", "(", ")", " ", "m", "i", "c", "e">>,
    <<"(", ")", "t", "e", "s", "t">>,
    <<"t", "e", "s", "t", "(", ")">>,
    <<"(", ")", "(", ")">>,
    <<"t", "e", "s", "t", " ", "{", "i", "n", "t", " ", "(">>,
    <<"(", "{", "i", "n", "t">>,
    <<"(", "{", "i", "n", "t", "}", ")", " ", ")">>,
    <<"{", "{", "i", "n", "t", "}", "}">>,
    <<"{", "i", "n", "t", "{", "s", "t", "r", "i", "n", "g", "}", "}">>,
    <<"t", "e", "s", "t", " ", "(">>,
    <<"{", "i", "n", "t">>,
    <<"}">>,
    <<")">>,
    <<"t", "e", "s", "t", " ", "}">>,
    <<"t", "e", "s", "t", " ", ")">>,
    <<"(", "a", "(", "b", ")", "c", ")">>,
    <<"t", "e", "s", "t", " ", "(", "a", "/", "b", ")">>,
    <<"t", "e", "s", "t", "/", "/", "o", "t", "h", "e", "r">>,
    <<"(", "{", "i", "n", "t", "}", ")">>,
    <<"/", "t", "e", "s", "t">>,
    <<"t", "e", "s", "t", "/">>,
    <<"a", "/", " ", "b">>,
    <<"t", "e", "s", "t", "/", "{", "i", "n", "t", "}">>,
    <<"{", "i", "n", "t", "}", "/", "t", "e", "s", "t">>,
    <<"a", "/", "i", "{", "i", "n", "t", "}", "n", "/", "y">>,
    <<"(", "a", " ", "b", ")", "c", "/", "d">>,
    <<"a", "/", "b", "\\", "/", "c">>,
    <<"c", "a", "t", "/", "d", "o", "g", " ", "e", "a", "t", "(", "s", ")", " ", "f", "i", "s", "h", "/", "m", "e", "a", "t">>,
    <<"g", "o", " ", "t", "o", " ", "k", "i", "t", "c", "h", "e", "n", "/", "b", "e", "d", "r", "o", "o", "m", " ", "f", "o", "r", " ", "{", "w", "o", "r", "d", "}">>,
    <<"I", " ", "h", "a", "v", "e", " ", "{", "i", "n", "t", "}", " ", "i", "t", "e", "m", "(", "s", ")", " ", "i", "n", " ", "w", "o", "r", "d", "/", "c", "o", "n", "t", "a", "i", "n", "e", "r">>,
    <<"\\", "(", "{", "i", "n", "t", "}", "\\", ")">>,
    <<"m", "i", "c", "e", "\\", "/", "r", "a", "t", "s">>,
    <<"\\", "/", "{", "i", "n", "t", "}">>,
    <<"{", "i", "n", "t", "}", " ", "r", "a", "t", "(", "s", ")", "/", "m", "o", "u", "s", "e", "/", "m", "i", "c", "e">>,
    <<"\\", "\\", "{", "i", "n", "t", "}">>,
    <<"{", "i", "n", "t", "}", "a", "/", "b">>,
    <<"a", " ", "/", "b">>,
    <<"^", "I", " ", "h", "a", "v", "e", " ", "1", "0", "$">> }

\* Two longer concatenations of pieces: an optional span holding a space
\* inside an alternation word, and an escape inside an alternation word.
ProbeInputs ==
  { <<"a", LP, "c", SP, "d", RP, SL, "b">>,
    <<"a", BS, RP, SL, "b">> }

\* Every string of at most MaxLen characters over the two anchor characters
\* and the characters that decide how they are rendered.
AnchorChars == {"a", "^", "$", SP, SL, LP, RP, BS}
AnchorInputs == UNION {[1..n -> AnchorChars] : n \in 1..MaxLen}

\* Parameters whose name differs from a registered name by case, by
\* surrounding whitespace or by missing or extra characters.
LookupInputs ==
  { <<"{", "I", "n", "t", "}">>,
    <<"{", "I", "N", "T", "}">>,
    <<"{", " ", "i", "n", "t", "}">>,
    <<"{", "i", "n", "t", " ", "}">>,
    <<"{", " ", "i", "n", "t", " ", "}">>,
    <<"{", "i", "n", "t", "-", "e", "x", "t", "r", "a", "}">>,
    <<"{", "i", "n", "}">>,
    <<"{", "i", "n", "t", "s", "}">>,
    <<"{", " ", "}">>,
    <<"{", "W", "o", "r", "d", "}">>,
    <<"{", "w", "o", "r", "d", " ", "}">>,
    <<"{", "i", "n", "t", "}", " ", "{", "I", "n", "t", "}">>,
    <<"a", " ", "{", "f", "l", "o", "a", "t", " ", "}", " ", "b">>,
    <<"{", "S", "t", "r", "i", "n", "g", "}">> }

\* The expressions of the custom parameter type tests.
CustomInputs ==
  { <<"{", "c", "o", "l", "o", "r", "}">>,
    <<"I", " ", "h", "a", "v", "e", " ", "a", " ", "{", "c", "o", "l", "o", "r", "}", " ", "b", "a", "l", "l">>,
    <<"T", "h", "e", " ", "p", "e", "r", "s", "o", "n", " ", "i", "s", " ", "{", "g", "e", "n", "d", "e", "r", "}">>,
    <<"I", " ", "h", "a", "v", "e", " ", "{", "i", "n", "t", "}", " ", "{", "c", "o", "l", "o", "r", "}", " ", "b", "a", "l", "l", "s">>,
    <<"I", " ", "h", "a", "v", "e", " ", "{", "i", "n", "t", "}", " ", "c", "u", "c", "u", "m", "b", "e", "r", "s">> }

\* An element of the array in custom_parameter_types.json: an object that
\* has or lacks the string fields name and regexp.
CustomEntry(hasName, name, hasRegexp, regexp) ==
  [hasName |-> hasName, name |-> name, hasRegexp |-> hasRegexp, regexp |-> regexp]

ColorEntry == CustomEntry(TRUE, <<"c", "o", "l", "o", "r">>, TRUE, <<"r", "e", "d", "|", "b", "l", "u", "e">>)
GenderEntry == CustomEntry(TRUE, <<"g", "e", "n", "d", "e", "r">>, TRUE, <<"m", "a", "l", "e", "|", "f", "e", "m", "a", "l", "e">>)

\* What the tests put into custom_parameter_types.json.  No file, text that
\* is not JSON and a JSON object all supply no entry.
NoCustomTypes == {}
CustomConfigurations ==
  { NoCustomTypes,
    {ColorEntry},
    {ColorEntry, GenderEntry},
    {CustomEntry(TRUE, <<"c", "o", "l", "o", "r">>, FALSE, <<>>)},
    {CustomEntry(FALSE, <<>>, TRUE, <<"r", "e", "d", "|", "b", "l", "u", "e">>), ColorEntry} }

\* The expressions a parallel run draws the arguments of its calls from.
ParallelInputs ==
  { <<"{", "i", "n", "t", "}">>,
    <<"a", "/", "b", " ", "{", "}">>,
    <<"\\", "{", "(", "a", ")">>,
    <<"{", "a", "}">> }

\* Expressions in which alternation meets optionals, parameters, spaces and
\* the ends of the expression, and a parameter after two backslashes.
BoundaryInputs ==
  { <<"(", "a", " ", "b", ")", "c", "/", "d">>,
    <<"t", "e", "s", "t", "/">>,
    <<"a", "/", " ", "b">>,
    <<"a", "/", "(", "b", ")">>,
    <<"t", "e", "s", "t", "/", "{", "i", "n", "t", "}">>,
    <<"(", "a", "(", "b", ")", "c", ")">>,
    <<"t", "e", "s", "t", " ", "(", "a", "/", "b", ")">>,
    <<"t", "e", "s", "t", "/", "/", "o", "t", "h", "e", "r">>,
    <<"(", "{", "i", "n", "t", "}", ")">>,
    <<"{", "i", "n", "t", "}", "a", "/", "b">>,
    <<"a", "/", "i", "{", "i", "n", "t", "}", "n", "/", "y">>,
    <<"a", " ", "/", "b">>,
    <<"/", "t", "e", "s", "t">>,
    <<"\\", "\\", "{", "i", "n", "t", "}">>,
    <<"a", " ", "b", " ", "c", "/", "d">>,
    <<"(", "(", "a", ")", ")">>,
    <<"a", "{", "i", "n", "t", "}", "/", "b">> }

Inputs == RawInputs \cup PieceInputs \cup TestInputs \cup ProbeInputs \cup AnchorInputs
            \cup LookupInputs \cup CustomInputs \cup ParallelInputs
            \cup BoundaryInputs

\* ------------------------------------------------------------------------
\* State
\* ------------------------------------------------------------------------
VARIABLES
  expression,   \* the argument of transform
  pc,           \* "start", "validate", "parse", "done"
  i,            \* loop index of the validation loop
  braceDepth,
  parenDepth,
  pos,          \* CucumberExpressionpressionParser::pos
  result,       \* the local result of parse()
  outcome,      \* what transform hands to its caller
  oob,          \* an out-of-range read of expression or result has happened
  customTypes,  \* the entries of custom_parameter_types.json in the working directory
  registry,     \* the function-local static PARAMETER_TYPES and its guard
  thread,       \* the call whose locals the variables above are
  others        \* the locals of the calls that are not running right now

callVars == <<expression, pc, i, braceDepth, parenDepth, pos, result, outcome, oob>>
processVars == <<customTypes, registry, thread, others>>
vars == <<callVars, processVars>>

\* The exception classes of CucumberExpression.hpp: the base class, which
\* derives from std::invalid_argument, and the classes derived from it.
ExpressionExceptionClasses ==
  { "CucumberExpressionpressionException", "UnknownParameterTypeException",
    "UnclosedParameterException", "UnclosedOptionalException",
    "UnmatchedClosingBraceException", "UnmatchedClosingParenthesisException",
    "EmptyOptionalException", "OptionalParameterTypeException",
    "AlternationInOptionalException", "EmptyAlternativeException",
    "NestedOptionalException", "EmptyExpressionException" }

NoOutcome ==
  [kind |-> "none", cause |-> "none", what |-> "", name |-> <<>>, at |-> -1,
   wrapped |-> FALSE, value |-> <<>>]

\* transform returns value
Returned(value) ==
  [kind |-> "pattern", cause |-> "none", what |-> "", name |-> <<>>, at |-> -1,
   wrapped |-> FALSE, value |-> value]

\* An exception of class kind thrown outside the try block of transform.
Thrown(kind, what) ==
  [kind |-> kind, cause |-> kind, what |-> what, name |-> <<>>, at |-> -1,
   wrapped |-> FALSE, value |-> <<>>]

\* An exception of class cause thrown inside the try block: the handler
\* catch (const std::exception&) rethrows it as the base class with the
\* message "Invalid Cucumber expression: " + e.what().
Rethrown(cause, what, name, at) ==
  [kind |-> "CucumberExpressionpressionException", cause |-> cause, what |-> what,
   name |-> name, at |-> at, wrapped |-> TRUE, value |-> <<>>]

\* The program crashed or went on with garbage after undefined behaviour.
Undefined ==
  [kind |-> "undefined", cause |-> "none", what |-> "", name |-> <<>>, at |-> -1,
   wrapped |-> FALSE, value |-> <<>>]

\* ------------------------------------------------------------------------
\* getParameterTypes(): the function-local static table
\* ------------------------------------------------------------------------
\* Before the first call of getParameterTypes() the static map is not
\* constructed; state is the guard of the static, by the call constructing
\* the map, inits the number of completed constructions.
RegistryUninitialised ==
  [state |-> "uninitialised", table |-> {}, by |-> 0, inits |-> 0]

\* The guard test every call of getParameterTypes() makes before it touches
\* the map, here letting a call through while the map is under construction.
RegistryReady_Unguarded == registry.state # "uninitialised"

\* The guard test every call of getParameterTypes() makes before it touches
\* the map: a call arriving during the construction waits for its end.
RegistryReady == registry.state = "ready"

\* getParameterTypes().find(name) != end()
HasParameterType(name) == \E p \in registry.table : p[1] = name

\* getParameterTypes().at(name)
ParameterTypeAt(name) == (CHOOSE p \in registry.table : p[1] = name)[2]

\* parseOpenBrace is about to call getParameterTypes(): it stands at a {
\* that has a } after it.
AtLookup ==
  /\ pc = "parse" /\ pos < Len(expression)
  /\ CharAt(expression, pos) = LB
  /\ Find(expression, RB, pos) # npos

\* The first call of getParameterTypes() takes the guard and starts
\* constructing the map.
GetParameterTypesBegin ==
  /\ AtLookup
  /\ registry.state = "uninitialised"
  /\ registry' = [registry EXCEPT !.state = "initialising", !.by = thread]
  /\ UNCHANGED <<callVars, customTypes, thread, others>>

\* The construction ends: the map holds the eleven entries of its
\* initialiser list, whatever customTypes holds, and the guard is released.
GetParameterTypesEnd ==
  /\ AtLookup
  /\ registry.state = "initialising"
  /\ registry.by = thread
  /\ registry' = [state |-> "ready", table |-> PARAMETER_TYPES, by |-> 0,
                  inits |-> registry.inits + 1]
  /\ UNCHANGED <<callVars, customTypes, thread, others>>

\* The locals of a call of transform that has not taken a step.
Entered(e) ==
  [expression |-> e, pc |-> "start", i |-> 0, braceDepth |-> 0, parenDepth |-> 0,
   pos |-> 0, result |-> <<>>, outcome |-> NoOutcome, oob |-> FALSE]

\* The locals of the running call.
Context ==
  [expression |-> expression, pc |-> pc, i |-> i, braceDepth |-> braceDepth,
   parenDepth |-> parenDepth, pos |-> pos, result |-> result, outcome |-> outcome,
   oob |-> oob]

\* The entry of others that stands for the running call.
Running == [Entered(<<>>) EXCEPT !.pc = "running"]

\* One call of transform in a fresh process.  The file is varied for the
\* expressions of the custom parameter type tests.
Init ==
  /\ expression \in Inputs
  /\ pc = "start"
  /\ i = 0
  /\ braceDepth = 0
  /\ parenDepth = 0
  /\ pos = 0
  /\ result = <<>>
  /\ outcome = NoOutcome
  /\ oob = FALSE
  /\ customTypes \in (IF expression \in CustomInputs THEN CustomConfigurations
                                                     ELSE {NoCustomTypes})
  /\ registry = RegistryUninitialised
  /\ thread = 1
  /\ others = <<Running>>

\* MaxCalls calls of transform entered by the threads of a fresh process.
InitParallel ==
  /\ expression \in ParallelInputs
  /\ pc = "start"
  /\ i = 0
  /\ braceDepth = 0
  /\ parenDepth = 0
  /\ pos = 0
  /\ result = <<>>
  /\ outcome = NoOutcome
  /\ oob = FALSE
  /\ customTypes = NoCustomTypes
  /\ registry = RegistryUninitialised
  /\ thread = 1
  /\ others \in {o \in [1..MaxCalls -> {Running} \cup {Entered(e) : e \in ParallelInputs}] :
                    \A c \in 1..MaxCalls : (o[c] = Running) <=> (c = 1)}

\* ------------------------------------------------------------------------
\* transform: empty check and validation loop
\* ------------------------------------------------------------------------
Finish(o) ==
  /\ pc' = "done"
  /\ outcome' = o

\* transform without its first check: the empty expression goes on to the
\* validator like any other.
CheckEmpty_Skipped ==
  /\ pc = "start"
  /\ pc' = "validate"
  /\ outcome' = outcome
  /\ UNCHANGED <<processVars, expression, i, braceDepth, parenDepth, pos, result, oob>>

\* transform without the validation loop: a non-empty expression goes to the
\* parser at once.
CheckEmpty_Unvalidated ==
  /\ pc = "start"
  /\ IF expression = <<>>
     THEN Finish(Thrown("EmptyExpressionException", "Cucumber expression cannot be empty"))
     ELSE pc' = "parse" /\ outcome' = outcome
  /\ UNCHANGED <<processVars, expression, i, braceDepth, parenDepth, pos, result, oob>>

\* if (expression.empty()) throw EmptyExpressionException();
CheckEmpty ==
  /\ pc = "start"
  /\ IF expression = <<>>
     THEN Finish(Thrown("EmptyExpressionException", "Cucumber expression cannot be empty"))
     ELSE pc' = "validate" /\ outcome' = outcome
  /\ UNCHANGED <<processVars, expression, i, braceDepth, parenDepth, pos, result, oob>>

\* The validation loop without the two "depth < 0" checks: closers are only
\* counted.
ValidateChar_ClosersUnchecked ==
  /\ pc = "validate"
  /\ i < Len(expression)
  /\ LET c == CharAt(expression, i)
     IN  IF i > 0 /\ CharAt(expression, i - 1) = BS
         THEN /\ i' = i + 1
              /\ UNCHANGED <<braceDepth, parenDepth, pc, outcome>>
         ELSE IF c = LB
         THEN /\ braceDepth' = braceDepth + 1
              /\ parenDepth' = parenDepth
              /\ IF braceDepth + 1 > 1
                 THEN /\ Finish(Thrown("CucumberExpressionpressionException",
                                       "Nested parameter types are not allowed"))
                      /\ i' = i
                 ELSE i' = i + 1 /\ UNCHANGED <<pc, outcome>>
         ELSE /\ braceDepth' = (IF c = RB THEN braceDepth - 1 ELSE braceDepth)
              /\ parenDepth' = (IF c = LP THEN parenDepth + 1
                                ELSE IF c = RP THEN parenDepth - 1 ELSE parenDepth)
              /\ i' = i + 1
              /\ UNCHANGED <<pc, outcome>>
  /\ UNCHANGED <<processVars, expression, pos, result, oob>>

\* One iteration of the loop "for (size_t i = 0; i < expression.length(); ++i)".
ValidateChar ==
  /\ pc = "validate"
  /\ i < Len(expression)
  /\ LET c == CharAt(expression, i)
     IN  IF i > 0 /\ CharAt(expression, i - 1) = BS
         THEN /\ i' = i + 1
              /\ UNCHANGED <<braceDepth, parenDepth, pc, outcome>>
         ELSE IF c = LB
         THEN /\ braceDepth' = braceDepth + 1
              /\ parenDepth' = parenDepth
              /\ IF braceDepth + 1 > 1
                 THEN /\ Finish(Thrown("CucumberExpressionpressionException",
                                       "Nested parameter types are not allowed"))
                      /\ i' = i
                 ELSE i' = i + 1 /\ UNCHANGED <<pc, outcome>>
         ELSE IF c = RB
         THEN /\ braceDepth' = braceDepth - 1
              /\ parenDepth' = parenDepth
              /\ IF braceDepth - 1 < 0
                 THEN /\ Finish(Thrown("UnmatchedClosingBraceException",
                                       "Unexpected closing brace '}' without matching opening brace"))
                      /\ i' = i
                 ELSE i' = i + 1 /\ UNCHANGED <<pc, outcome>>
         ELSE IF c = LP
         THEN /\ parenDepth' = parenDepth + 1
              /\ i' = i + 1
              /\ UNCHANGED <<braceDepth, pc, outcome>>
         ELSE IF c = RP
         THEN /\ parenDepth' = parenDepth - 1
              /\ braceDepth' = braceDepth
              /\ IF parenDepth - 1 < 0
                 THEN /\ Finish(Thrown("UnmatchedClosingParenthesisException",
                                       "Unexpected closing parenthesis ')' without matching opening parenthesis"))
                      /\ i' = i
                 ELSE i' = i + 1 /\ UNCHANGED <<pc, outcome>>
         ELSE /\ i' = i + 1
              /\ UNCHANGED <<braceDepth, parenDepth, pc, outcome>>
  /\ UNCHANGED <<processVars, expression, pos, result, oob>>

\* The end of the loop going on to the parser without looking at the depths.
ValidateEnd_DepthsUnchecked ==
  /\ pc = "validate"
  /\ i >= Len(expression)
  /\ pc' = "parse" /\ outcome' = outcome
  /\ UNCHANGED <<processVars, expression, i, braceDepth, parenDepth, pos, result, oob>>

\* The two checks after the loop in the other order: parentheses first.
ValidateEnd_ParenthesesFirst ==
  /\ pc = "validate"
  /\ i >= Len(expression)
  /\ IF parenDepth # 0
     THEN Finish(Thrown("UnclosedOptionalException",
                        "Unclosed optional text: unmatched parentheses"))
     ELSE IF braceDepth # 0
     THEN Finish(Thrown("UnclosedParameterException",
                        "Unclosed parameter type: unmatched braces"))
     ELSE pc' = "parse" /\ outcome' = outcome
  /\ UNCHANGED <<processVars, expression, i, braceDepth, parenDepth, pos, result, oob>>

\* The two checks after the loop; on success the parser is constructed.
ValidateEnd ==
  /\ pc = "validate"
  /\ i >= Len(expression)
  /\ IF braceDepth # 0
     THEN Finish(Thrown("UnclosedParameterException",
                        "Unclosed parameter type: unmatched braces"))
     ELSE IF parenDepth # 0
     THEN Finish(Thrown("UnclosedOptionalException",
                        "Unclosed optional text: unmatched parentheses"))
     ELSE pc' = "parse" /\ outcome' = outcome
  /\ UNCHANGED <<processVars, expression, i, braceDepth, parenDepth, pos, result, oob>>

\* ------------------------------------------------------------------------
\* CucumberExpressionpressionParser::parse, one loop iteration per action
\* ------------------------------------------------------------------------
Parsing == pc = "parse" /\ pos < Len(expression)

\* The dispatch condition of the escape branch of parse().
AtEscape ==
  /\ CharAt(expression, pos) = BS
  /\ pos + 1 < Len(expression)
  /\ CharAt(expression, pos + 1) \in {LP, RP, LB, RB, SL}

ParseEscaping ==
  /\ Parsing
  /\ AtEscape
  /\ LET next == CharAt(expression, pos + 1)
     IN  result' = result \o (IF next \in {LB, RB, LP, RP} THEN <<BS, next>> ELSE <<next>>)
  /\ pos' = pos + 2
  /\ UNCHANGED <<processVars, expression, pc, i, braceDepth, parenDepth, outcome, oob>>

\* parseOpenBrace looking the name up with its spaces removed.
ParseOpenBrace_Trimmed ==
  /\ Parsing
  /\ CharAt(expression, pos) = LB
  /\ Find(expression, RB, pos) # npos => RegistryReady
  /\ LET closePos == Find(expression, RB, pos)
         paramType == SelectSeq(Substr(expression, pos + 1, closePos - pos - 1),
                                LAMBDA c : c # SP)
     IN  IF closePos = npos
         THEN /\ Finish(Rethrown("UnclosedParameterException",
                                 "Unclosed parameter type: missing '}' at position ", <<>>, pos))
              /\ UNCHANGED <<pos, result>>
         ELSE IF ~HasParameterType(paramType)
         THEN /\ Finish(Rethrown("UnknownParameterTypeException",
                                 "Unknown parameter type: {", paramType, -1))
              /\ UNCHANGED <<pos, result>>
         ELSE /\ result' = result \o <<LP>> \o ParameterTypeAt(paramType) \o <<RP>>
              /\ pos' = closePos + 1
              /\ UNCHANGED <<pc, outcome>>
  /\ UNCHANGED <<processVars, expression, i, braceDepth, parenDepth, oob>>

ParseOpenBrace ==
  /\ Parsing
  /\ CharAt(expression, pos) = LB
  /\ Find(expression, RB, pos) # npos => RegistryReady
  /\ LET closePos == Find(expression, RB, pos)
         paramType == Substr(expression, pos + 1, closePos - pos - 1)
     IN  IF closePos = npos
         THEN /\ Finish(Rethrown("UnclosedParameterException",
                                 "Unclosed parameter type: missing '}' at position ", <<>>, pos))
              /\ UNCHANGED <<pos, result>>
         ELSE IF ~HasParameterType(paramType)
         THEN /\ Finish(Rethrown("UnknownParameterTypeException",
                                 "Unknown parameter type: {", paramType, -1))
              /\ UNCHANGED <<pos, result>>
         ELSE /\ result' = result \o <<LP>> \o ParameterTypeAt(paramType) \o <<RP>>
              /\ pos' = closePos + 1
              /\ UNCHANGED <<pc, outcome>>
  /\ UNCHANGED <<processVars, expression, i, braceDepth, parenDepth, oob>>

\* parseOpenParenthesis rejecting an optional text that holds an opening
\* parenthesis.
ParseOpenParenthesis_NestedRejected ==
  /\ Parsing
  /\ CharAt(expression, pos) = LP
  /\ LET closePos == Find(expression, RP, pos)
         optionalContent == Substr(expression, pos + 1, closePos - pos - 1)
     IN  IF closePos = npos
         THEN /\ Finish(Rethrown("UnclosedOptionalException",
                                 "Unclosed optional text: missing ')' at position ", <<>>, pos))
              /\ UNCHANGED <<pos, result>>
         ELSE IF optionalContent = <<>>
         THEN /\ Finish(Rethrown("CucumberExpressionpressionException",
                                 "Empty optional text is not allowed at position ", <<>>, pos))
              /\ UNCHANGED <<pos, result>>
         ELSE IF \E k \in 1..Len(optionalContent) : optionalContent[k] = LP
         THEN /\ Finish(Rethrown("NestedOptionalException",
                                 "Nested optional text is not allowed at position ", <<>>, pos))
              /\ UNCHANGED <<pos, result>>
         ELSE /\ result' = result \o <<LP, "?", ":">> \o escapeRegexChars(optionalContent)
                                  \o <<RP, "?">>
              /\ pos' = closePos + 1
              /\ UNCHANGED <<pc, outcome>>
  /\ UNCHANGED <<processVars, expression, i, braceDepth, parenDepth, oob>>

ParseOpenParenthesis ==
  /\ Parsing
  /\ CharAt(expression, pos) = LP
  /\ LET closePos == Find(expression, RP, pos)
         optionalContent == Substr(expression, pos + 1, closePos - pos - 1)
     IN  IF closePos = npos
         THEN /\ Finish(Rethrown("UnclosedOptionalException",
                                 "Unclosed optional text: missing ')' at position ", <<>>, pos))
              /\ UNCHANGED <<pos, result>>
         ELSE IF optionalContent = <<>>
         THEN /\ Finish(Rethrown("CucumberExpressionpressionException",
                                 "Empty optional text is not allowed at position ", <<>>, pos))
              /\ UNCHANGED <<pos, result>>
         ELSE /\ result' = result \o <<LP, "?", ":">> \o escapeRegexChars(optionalContent)
                                  \o <<RP, "?">>
              /\ pos' = closePos + 1
              /\ UNCHANGED <<pc, outcome>>
  /\ UNCHANGED <<processVars, expression, i, braceDepth, parenDepth, oob>>

\* What the backtracking loop can produce when it starts at expression[pos - 1]
\* with pos = 0, that is at index SIZE_MAX: the bytes in front of the buffer.
OutOfRangeWords == {<<>>, <<"a">>}

\* parseAlternatives that appends the group without removing the last word
\* from result first.
SpliceAlternatives_KeepingWord(firstWord) ==
  LET collected == collectAlternativesFromHere(expression, pos - 1, firstWord)
      alternatives == collected.alternatives
      rendered == RenderAlternatives(alternatives, 1)
  IN  IF Len(alternatives) > 1
      THEN IF rendered.ok
           THEN /\ result' = result \o <<LP, "?", ":">> \o rendered.out \o <<RP>>
                /\ pos' = collected.fwdPos
                /\ UNCHANGED <<pc, outcome>>
           ELSE /\ Finish(Rethrown("CucumberExpressionpressionException",
                                   "Empty optional text is not allowed", <<>>, -1))
                /\ UNCHANGED <<pos, result>>
      ELSE /\ result' = result
           /\ pos' = collected.fwdPos
           /\ UNCHANGED <<pc, outcome>>

\* parseAlternatives writing the separator as a literal when it has
\* collected fewer than two alternatives.
SpliceAlternatives_SeparatorKept(firstWord) ==
  LET collected == collectAlternativesFromHere(expression, pos - 1, firstWord)
      alternatives == collected.alternatives
      lastSpace == RFind(result, SP)
      kept == IF lastSpace # npos THEN Substr(result, 0, lastSpace + 1) ELSE <<>>
      rendered == RenderAlternatives(alternatives, 1)
  IN  IF Len(alternatives) > 1
      THEN IF rendered.ok
           THEN /\ result' = kept \o <<LP, "?", ":">> \o rendered.out \o <<RP>>
                /\ pos' = collected.fwdPos
                /\ UNCHANGED <<pc, outcome>>
           ELSE /\ Finish(Rethrown("CucumberExpressionpressionException",
                                   "Empty optional text is not allowed", <<>>, -1))
                /\ UNCHANGED <<pos, result>>
      ELSE /\ result' = result \o <<SL>>
           /\ pos' = collected.fwdPos
           /\ UNCHANGED <<pc, outcome>>

\* parseAlternatives from the call of collectAlternativesFromHere on, given
\* the word found by the backtracking loop.
SpliceAlternatives(firstWord) ==
  LET collected == collectAlternativesFromHere(expression, pos - 1, firstWord)
      alternatives == collected.alternatives
      lastSpace == RFind(result, SP)
      kept == IF lastSpace # npos THEN Substr(result, 0, lastSpace + 1) ELSE <<>>
      rendered == RenderAlternatives(alternatives, 1)
  IN  IF Len(alternatives) > 1
      THEN IF rendered.ok
           THEN /\ result' = kept \o <<LP, "?", ":">> \o rendered.out \o <<RP>>
                /\ pos' = collected.fwdPos
                /\ UNCHANGED <<pc, outcome>>
           ELSE /\ Finish(Rethrown("CucumberExpressionpressionException",
                                   "Empty optional text is not allowed", <<>>, -1))
                /\ UNCHANGED <<pos, result>>
      ELSE /\ result' = result
           /\ pos' = collected.fwdPos
           /\ UNCHANGED <<pc, outcome>>

ParseAlternatives ==
  /\ Parsing
  /\ CharAt(expression, pos) = SL
  /\ IF pos = 0
     THEN \* collectAlternativesFromHere(pos - 1) reads expression[SIZE_MAX]
          /\ oob' = TRUE
          /\ \/ Finish(Undefined) /\ UNCHANGED <<pos, result>>
             \/ \E garbage \in OutOfRangeWords : SpliceAlternatives(garbage)
     ELSE \* wordEnd > 0, so the first loop evaluates result.back()
          /\ oob' = (oob \/ result = <<>>)
          /\ SpliceAlternatives(Backtrack(expression, pos - 1, <<>>))
  /\ UNCHANGED <<processVars, expression, i, braceDepth, parenDepth>>

\* The literal branch copying every character as it is.
ParseLiteral_Unescaped ==
  /\ Parsing
  /\ ~AtEscape
  /\ CharAt(expression, pos) \notin {LB, LP, SL}
  /\ result' = result \o <<CharAt(expression, pos)>>
  /\ pos' = pos + 1
  /\ UNCHANGED <<processVars, expression, pc, i, braceDepth, parenDepth, outcome, oob>>

ParseLiteral ==
  /\ Parsing
  /\ ~AtEscape
  /\ CharAt(expression, pos) \notin {LB, LP, SL}
  /\ LET current == CharAt(expression, pos)
     IN  result' = result \o (IF current \in RegexSpecialChars THEN <<BS, current>>
                              ELSE <<current>>)
  /\ pos' = pos + 1
  /\ UNCHANGED <<processVars, expression, pc, i, braceDepth, parenDepth, outcome, oob>>

\* The anchoring without the end anchor.
Anchored_WithoutEnd(regex) == <<"^">> \o regex

\* "^" + regex + "$"
Anchored(regex) == <<"^">> \o regex \o <<"$">>

\* parse() returns; transform anchors the text, runs validateRegex and returns.
ParseEnd ==
  /\ pc = "parse"
  /\ pos >= Len(expression)
  /\ LET regex == Anchored(result)
     IN  IF validateRegex(regex)
         THEN Finish(Returned(regex))
         ELSE Finish(Rethrown("CucumberExpressionpressionException",
                              "Failed to create valid regex: ", <<>>, -1))
  /\ UNCHANGED <<processVars, expression, i, braceDepth, parenDepth, pos, result, oob>>

Next ==
  \/ CheckEmpty
  \/ GetParameterTypesBegin
  \/ GetParameterTypesEnd
  \/ ValidateChar
  \/ ValidateEnd
  \/ ParseEscaping
  \/ ParseOpenBrace
  \/ ParseOpenParenthesis
  \/ ParseAlternatives
  \/ ParseLiteral
  \/ ParseEnd

Spec == Init /\ [][Next]_vars

\* The call is never left standing: transform runs on its caller's thread
\* and has no point at which it waits.
FairSpec == Spec /\ WF_vars(Next)

\* The processor goes on with call c: the locals of the running call are
\* kept aside and those of c are taken up where c left them.
Switch(c) ==
  /\ c \in DOMAIN others
  /\ c # thread
  /\ others' = [others EXCEPT ![thread] = Context, ![c] = Running]
  /\ thread' = c
  /\ expression' = others[c].expression
  /\ pc' = others[c].pc
  /\ i' = others[c].i
  /\ braceDepth' = others[c].braceDepth
  /\ parenDepth' = others[c].parenDepth
  /\ pos' = others[c].pos
  /\ result' = others[c].result
  /\ outcome' = others[c].outcome
  /\ oob' = others[c].oob
  /\ UNCHANGED <<customTypes, registry>>

Schedule == \E c \in 1..MaxCalls : Switch(c)

NextParallel ==
  \/ Next
  \/ Schedule

SpecParallel == InitParallel /\ [][NextParallel]_vars

TypeOK ==
  /\ pc \in {"start", "validate", "parse", "done"}
  /\ i \in 0..Len(expression)
  /\ pos \in 0..Len(expression)

\* ------------------------------------------------------------------------
\* Reference rendering: what the specification says the pattern of an
\* expression is.  It is written from the grammar (tokens, space-separated
\* units, alternatives), not from the parser's loops.
\* ------------------------------------------------------------------------
Metacharacters == {".", "^", "$", "|", "(", ")", "[", "]", "{", "}", "*", "+", "?", "\\"}
Escapable == {"(", ")", "{", "}", "/"}

RECURSIVE Flatten(_, _)
Flatten(parts, k) ==
  IF k > Len(parts) THEN <<>> ELSE parts[k] \o Flatten(parts, k + 1)

\* text with every metacharacter prefixed by a backslash
Quoted(text) ==
  Flatten([k \in 1..Len(text) |->
             IF text[k] \in Metacharacters THEN <<"\\", text[k]>> ELSE <<text[k]>>], 1)

Token(t, text) == [t |-> t, text |-> text]

\* The tokens of e from (zero-based) index k on.
RECURSIVE Tokens(_, _)
Tokens(e, k) ==
  IF k >= Len(e) THEN <<>>
  ELSE
    LET c == e[k + 1]
        closing(ch) == {j \in (k + 2)..Len(e) : e[j] = ch}
        close(ch) == CHOOSE j \in closing(ch) : \A m \in closing(ch) : j <= m
    IN  CASE c = "\\" /\ k + 2 <= Len(e) /\ e[k + 2] \in Escapable ->
               <<Token("Esc", <<e[k + 2]>>)>> \o Tokens(e, k + 2)
          [] c = "{" /\ closing("}") # {} ->
               <<Token("Param", SubSeq(e, k + 2, close("}") - 1))>> \o Tokens(e, close("}"))
          [] c = "(" /\ closing(")") # {} ->
               <<Token("Opt", SubSeq(e, k + 2, close(")") - 1))>> \o Tokens(e, close(")"))
          [] c \in {"{", "("} /\ closing(IF c = "{" THEN "}" ELSE ")") = {} ->
               <<Token("Bad", <<c>>)>> \o Tokens(e, k + 1)
          [] c = "/" -> <<Token("Sep", <<>>)>> \o Tokens(e, k + 1)
          [] c = " " -> <<Token("Space", <<>>)>> \o Tokens(e, k + 1)
          [] OTHER -> <<Token("Lit", <<c>>)>> \o Tokens(e, k + 1)

\* The built-in table of the specification (section 4.1).
IntLikeNames ==
  { <<"i", "n", "t">>, <<"b", "i", "g", "i", "n", "t", "e", "g", "e", "r">>,
    <<"b", "y", "t", "e">>, <<"s", "h", "o", "r", "t">>, <<"l", "o", "n", "g">> }
FloatLikeNames ==
  { <<"f", "l", "o", "a", "t">>, <<"d", "o", "u", "b", "l", "e">>,
    <<"b", "i", "g", "d", "e", "c", "i", "m", "a", "l">> }
BuiltinNames ==
  IntLikeNames \cup FloatLikeNames \cup {<<"w", "o", "r", "d">>, <<"s", "t", "r", "i", "n", "g">>, <<>>}

ExpectedFragment(name) ==
  CASE name \in IntLikeNames -> <<"-", "?", "\\", "d", "+">>
    [] name \in FloatLikeNames ->
         <<"(", "?", "=", ".", "*", "\\", "d", ".", "*", ")", "[", "-", "+", "]", "?", "\\", "d", "*", "(", "?", ":", "\\", ".", "(", "?", "=", "\\", "d", ".", "*", ")", ")", "?", "\\", "d", "*", "(", "?", ":", "\\", "d", "+", "[", "E", "]", "[", "+", "-", "]", "?", "\\", "d", "+", ")", "?">>
    [] name = <<"w", "o", "r", "d">> -> <<"[", "^", "\\", "s", "]", "+">>
    [] name = <<"s", "t", "r", "i", "n", "g">> ->
         <<"\"", "(", "[", "^", "\"", "\\", "\\", "]", "*", "(", "\\", "\\", ".", "[", "^", "\"", "\\", "\\", "]", "*", ")", "*", ")", "\"", "|", "'", "(", "[", "^", "'", "\\", "\\", "]", "*", "(", "\\", "\\", ".", "[", "^", "'", "\\", "\\", "]", "*", ")", "*", ")", "'">>
    [] name = <<>> -> <<".", "*">>

RenderToken(tok) ==
  CASE tok.t = "Lit" -> Quoted(tok.text)
    [] tok.t = "Esc" -> IF tok.text[1] = "/" THEN <<"/">> ELSE <<"\\", tok.text[1]>>
    [] tok.t = "Param" -> <<"(">> \o ExpectedFragment(tok.text) \o <<")">>
    [] tok.t = "Opt" -> <<"(", "?", ":">> \o Quoted(tok.text) \o <<")", "?">>
    [] tok.t = "Space" -> <<" ">>
    [] tok.t = "Sep" -> <<"|">>

\* The unit of token j: the tokens between the nearest Space tokens.
UnitOf(toks, j) ==
  LET before == {m \in 1..(j - 1) : toks[m].t = "Space"}
      after == {m \in (j + 1)..Len(toks) : toks[m].t = "Space"}
  IN  [first |-> IF before = {} THEN 1 ELSE 1 + CHOOSE m \in before : \A q \in before : m >= q,
       last |-> IF after = {} THEN Len(toks) ELSE (CHOOSE m \in after : \A q \in after : m <= q) - 1]

HasSeparator(toks, unit) == \E m \in unit.first..unit.last : toks[m].t = "Sep"

\* The rendered text: units without a separator are rendered token by token,
\* a unit p1/p2/.../pk becomes (?:p1|p2|...|pk).
Rendering(toks) ==
  Flatten([j \in 1..Len(toks) |->
             IF toks[j].t = "Space" THEN <<" ">>
             ELSE LET unit == UnitOf(toks, j)
                  IN  IF HasSeparator(toks, unit)
                      THEN (IF j = unit.first THEN <<"(", "?", ":">> ELSE <<>>)
                           \o RenderToken(toks[j])
                           \o (IF j = unit.last THEN <<")">> ELSE <<>>)
                      ELSE RenderToken(toks[j])], 1)

ExpectedPattern(e) == <<"^">> \o Rendering(Tokens(e, 0)) \o <<"$">>

\* Every alternative of every unit with a separator is non-empty.
AlternativesNonEmpty(toks) ==
  \A j \in 1..Len(toks) :
    toks[j].t = "Sep" =>
      /\ j > 1 /\ toks[j - 1].t \notin {"Sep", "Space"}
      /\ j < Len(toks) /\ toks[j + 1].t \notin {"Sep", "Space"}

TokenKinds(toks) == {toks[j].t : j \in 1..Len(toks)}

\* The validation loop ran to the end and found both depths zero.
Accepted ==
  /\ expression # <<>>
  /\ pc \in {"parse", "done"}
  /\ i = Len(expression)
  /\ braceDepth = 0
  /\ parenDepth = 0

ReturnedPattern == pc = "done" /\ outcome.kind = "pattern"

\* ------------------------------------------------------------------------
\* Shapes of expressions the claims speak about
\* ------------------------------------------------------------------------
ExprTokens == Tokens(expression, 0)

PlainChar(c) == c \notin Metacharacters /\ c \notin {"/", " "}

\* Units with a separator consist of plain letters and separators only, and
\* none of their alternatives is empty.
PlainAlternations(toks) ==
  /\ AlternativesNonEmpty(toks)
  /\ \A j \in 1..Len(toks) :
       HasSeparator(toks, UnitOf(toks, j)) =>
         \/ toks[j].t \in {"Sep", "Space"}
         \/ toks[j].t = "Lit" /\ PlainChar(toks[j].text[1])

ParamsBuiltin(toks) ==
  \A j \in 1..Len(toks) : toks[j].t = "Param" => toks[j].text \in BuiltinNames

OptionalsNonEmpty(toks) ==
  \A j \in 1..Len(toks) : toks[j].t = "Opt" => toks[j].text # <<>>

\* ------------------------------------------------------------------------
\* C1
\* ------------------------------------------------------------------------
WellAnchored(p) == Len(p) >= 2 /\ p[1] = "^" /\ p[Len(p)] = "$"

UnknownParams(toks) ==
  {j \in 1..Len(toks) : toks[j].t = "Param" /\ toks[j].text \notin BuiltinNames}

\* C2: an accepted expression of literal text and parameters in which some
\* parameter name is not registered fails with UnknownParameterType carrying
\* the first such name; kind and name reach the caller unchanged.
C2_UnknownTypeReachesCaller ==
  LET toks == ExprTokens
      unknown == UnknownParams(toks)
      first == CHOOSE j \in unknown : \A m \in unknown : j <= m
  IN  (Accepted /\ pc = "done" /\ TokenKinds(toks) \subseteq {"Lit", "Param", "Space"}
        /\ unknown # {}) =>
         /\ outcome.kind = "UnknownParameterTypeException"
         /\ outcome.name = toks[first].text

\* ------------------------------------------------------------------------
\* C3
\* ------------------------------------------------------------------------
\* C3: the empty expression fails with EmptyExpression before any other rule
\* runs: no validation or parsing step is taken, no other kind, no pattern.
C3_EmptyExpressionFirst ==
  (expression = <<>> /\ pc # "start") =>
     /\ pc = "done"
     /\ outcome.kind = "EmptyExpressionException"
     /\ ~outcome.wrapped
     /\ i = 0 /\ pos = 0 /\ result = <<>>

C3_Witness ==
  expression = <<>> /\ pc = "done" /\ outcome.kind = "EmptyExpressionException"

PlainWords(toks) ==
  /\ TokenKinds(toks) \subseteq {"Lit", "Sep", "Space"}
  /\ \A j \in 1..Len(toks) : toks[j].t = "Lit" => PlainChar(toks[j].text[1])
  /\ AlternativesNonEmpty(toks)

\* C6: in an expression of plain words separated by spaces, each word
\* p1/p2/.../pk with non-empty parts is rendered as (?:p1|p2|...|pk) in
\* source order, every other word and every space unchanged.
C6_AlternationRendered ==
  (pc = "done" /\ expression # <<>> /\ PlainWords(ExprTokens)) =>
     outcome = Returned(ExpectedPattern(expression))

C6_Witness ==
  /\ pc = "done"
  /\ expression = <<"a", "/", "b", " ", "c", "/", "d", "/", "e">>
  /\ outcome = Returned(<<"^", "(", "?", ":", "a", "|", "b", ")", " ", "(", "?", ":", "c", "|", "d", "|", "e", ")", "$">>)

\* ------------------------------------------------------------------------
\* C7
\* ------------------------------------------------------------------------
\* Every optional span follows a plain letter directly and stands in a unit
\* with a separator; everything else is plain words.
OptionalsInAlternatives(toks) ==
  /\ TokenKinds(toks) \subseteq {"Lit", "Sep", "Space", "Opt"}
  /\ "Opt" \in TokenKinds(toks)
  /\ AlternativesNonEmpty(toks)
  /\ OptionalsNonEmpty(toks)
  /\ \A j \in 1..Len(toks) :
       /\ toks[j].t = "Lit" => PlainChar(toks[j].text[1])
       /\ toks[j].t = "Opt" =>
            /\ j > 1 /\ toks[j - 1].t = "Lit"
            /\ HasSeparator(toks, UnitOf(toks, j))
            /\ \A k \in 1..Len(toks[j].text) :
                 PlainChar(toks[j].text[k]) \/ toks[j].text[k] = " "

\* C7: an optional span written directly after a word that is an alternative
\* of an alternation is rendered inside that alternative as word(?:text)?,
\* whether the alternative is first, in the middle or last.
C7_OptionalInsideAlternative ==
  (pc = "done" /\ OptionalsInAlternatives(ExprTokens)) =>
     outcome = Returned(ExpectedPattern(expression))

\* ------------------------------------------------------------------------
\* C8
\* ------------------------------------------------------------------------
EscapesAmongWords(toks) ==
  /\ TokenKinds(toks) \subseteq {"Lit", "Sep", "Space", "Esc"}
  /\ "Esc" \in TokenKinds(toks)
  /\ AlternativesNonEmpty(toks)
  /\ \A j \in 1..Len(toks) : toks[j].t = "Lit" => PlainChar(toks[j].text[1])

\* C8: in an expression of plain words, separators and escape sequences,
\* every escape is rendered as the escaped character taken literally (\/ as a
\* bare /, the others backslash-escaped) and never acts as syntax, also
\* inside or next to a word that takes part in an alternation.
C8_EscapesLiteral ==
  (pc = "done" /\ EscapesAmongWords(ExprTokens)) =>
     outcome = Returned(ExpectedPattern(expression))

\* ------------------------------------------------------------------------
\* C9
\* ------------------------------------------------------------------------
EscapedSlashInAlternation(toks) ==
  /\ TokenKinds(toks) \subseteq {"Lit", "Sep", "Space", "Esc"}
  /\ AlternativesNonEmpty(toks)
  /\ \A j \in 1..Len(toks) :
       /\ toks[j].t = "Lit" => PlainChar(toks[j].text[1])
       /\ toks[j].t = "Esc" => toks[j].text = <<"/">>
  /\ \E j \in 1..Len(toks) :
       /\ toks[j].t = "Esc"
       /\ \E m \in UnitOf(toks, j).first..(j - 1) : toks[m].t = "Sep"

\* C9: an escaped slash inside an alternative that follows a separator becomes
\* a literal / of that rendered alternative; it neither separates
\* alternatives nor disappears.
C9_EscapedSlashKept ==
  (pc = "done" /\ EscapedSlashInAlternation(ExprTokens)) =>
     outcome = Returned(ExpectedPattern(expression))

\* ------------------------------------------------------------------------
\* C10
\* ------------------------------------------------------------------------
NoneOf(e, chars) == \A k \in 1..Len(e) : e[k] \notin chars

\* C10 as stated: a non-empty expression without { ( ) / \ is returned as
\* ^ + escaped expression + $.
C10_LiteralRoundTripAsStated ==
  (pc = "done" /\ expression # <<>> /\ NoneOf(expression, {"{", "(", ")", "/", "\\"})) =>
     outcome = Returned(<<"^">> \o Quoted(expression) \o <<"$">>)

\* C10 (amended): a non-empty expression without { } ( ) / \ is returned as
\* ^ + E + $, E being the expression with each metacharacter prefixed by a
\* backslash and every other character copied.
C10_LiteralRoundTrip ==
  (pc = "done" /\ expression # <<>>
    /\ NoneOf(expression, {"{", "}", "(", ")", "/", "\\"})) =>
     outcome = Returned(<<"^">> \o Quoted(expression) \o <<"$">>)

C10_Witness ==
  /\ pc = "done"
  /\ expression = <<"a", "r", "r", "a", "y", " ", "[", "0", "]">>
  /\ outcome = Returned(<<"^", "a", "r", "r", "a", "y", " ", "\\", "[", "0", "\\", "]", "$">>)

\* ------------------------------------------------------------------------
\* C11
\* ------------------------------------------------------------------------
\* The positions of pattern p where ch stands as regex syntax: not the second
\* character of an escape pair and not inside a bracket expression.
SyntaxPositions(p, ch) ==
  LET esc == EscapedAt(p)
      inb == InBracketAt(p, esc)
  IN  {k \in 1..Len(p) : p[k] = ch /\ ~esc[k] /\ ~inb[k]}

HasEmptyOptional(toks) ==
  /\ TokenKinds(toks) \subseteq {"Lit", "Esc", "Space", "Sep", "Opt"}
  /\ \E j \in 1..Len(toks) : toks[j].t = "Opt" /\ toks[j].text = <<>>

\* C12: an accepted expression with an empty optional span () fails with the
\* EmptyOptional error kind, wherever the span stands.
C12_EmptyOptionalKind ==
  (Accepted /\ pc = "done" /\ HasEmptyOptional(ExprTokens)) =>
     outcome.kind = "EmptyOptionalException"

\* ------------------------------------------------------------------------
\* Reference validator: the depth scan as the specification states it
\* (section 4.2), computed from the whole prefix instead of step by step.  A
\* character is skipped when a backslash stands immediately in front of it:
\* the grammar's escapes are \( \) \{ \} \/ only (section 4.3), it has none
\* for the backslash itself.  Indexes are zero-based.
\* ------------------------------------------------------------------------
SkippedAt(e, k) == k > 0 /\ e[k] = "\\"

CountedAt(e, k, ch) == e[k + 1] = ch /\ ~SkippedAt(e, k)

\* The depth before index k: counted openers minus counted closers.
DepthBefore(e, k, opener, closer) ==
  Cardinality({j \in 0..(k - 1) : CountedAt(e, j, opener)})
    - Cardinality({j \in 0..(k - 1) : CountedAt(e, j, closer)})

\* The rule index k breaks, "none" when it breaks none.
ViolationAt(e, k) ==
  CASE CountedAt(e, k, "{") /\ DepthBefore(e, k, "{", "}") >= 1 -> "NestedParameterType"
    [] CountedAt(e, k, "}") /\ DepthBefore(e, k, "{", "}") <= 0 -> "UnmatchedClosingBrace"
    [] CountedAt(e, k, ")") /\ DepthBefore(e, k, "(", ")") <= 0 -> "UnmatchedClosingParenthesis"
    [] OTHER -> "none"

Violations(e) == {k \in 0..(Len(e) - 1) : ViolationAt(e, k) # "none"}

\* The leftmost index that breaks a depth rule (Violations(e) is not empty).
FirstViolation(e) == CHOOSE k \in Violations(e) : \A m \in Violations(e) : k <= m

\* ------------------------------------------------------------------------
\* C13
\* ------------------------------------------------------------------------
\* C13: when the leftmost depth violation of the scan is an unescaped } met
\* at braceDepth 0, or an unescaped ) met at parenDepth 0, transform fails
\* with UnmatchedClosingBrace, respectively UnmatchedClosingParenthesis; the
\* scan stops at that character and no pattern is produced.
C13_UnmatchedClosing ==
  LET e == expression
      k == FirstViolation(e)
      rule == ViolationAt(e, k)
  IN  (pc = "done" /\ Violations(e) # {}
        /\ rule \in {"UnmatchedClosingBrace", "UnmatchedClosingParenthesis"}) =>
         /\ outcome.kind = rule \o "Exception"
         /\ ~outcome.wrapped
         /\ i = k
         /\ result = <<>>

C13_Witness ==
  /\ pc = "done"
  /\ expression = <<"t", "e", "s", "t", " ", "}">>
  /\ outcome.kind = "UnmatchedClosingBraceException"
  /\ i = 5

\* ------------------------------------------------------------------------
\* C14
\* ------------------------------------------------------------------------
\* C14: when the scan of a non-empty expression ends without a depth
\* violation, a non-zero brace depth makes transform fail with
\* UnclosedParameter (also when the parenthesis depth is non-zero too), and
\* otherwise a non-zero parenthesis depth makes it fail with UnclosedOptional.
C14_EndOfScan ==
  LET e == expression
      braces == DepthBefore(e, Len(e), "{", "}")
      parens == DepthBefore(e, Len(e), "(", ")")
  IN  (pc = "done" /\ e # <<>> /\ Violations(e) = {}) =>
         /\ braces # 0 =>
              outcome = Thrown("UnclosedParameterException",
                               "Unclosed parameter type: unmatched braces")
         /\ (braces = 0 /\ parens # 0) =>
              outcome = Thrown("UnclosedOptionalException",
                               "Unclosed optional text: unmatched parentheses")

C14_Witness ==
  /\ pc = "done"
  /\ expression = <<"t", "e", "s", "t", " ", "{", "i", "n", "t", " ", "(">>
  /\ braceDepth = 1 /\ parenDepth = 1
  /\ outcome.kind = "UnclosedParameterException"

\* ------------------------------------------------------------------------
\* C15
\* ------------------------------------------------------------------------
\* C15: when the leftmost depth violation of the scan is an unescaped { met
\* at braceDepth 1, transform fails with the NestedParameterType error kind.
C15_NestedParameterKind ==
  LET e == expression
  IN  (pc = "done" /\ Violations(e) # {}
        /\ ViolationAt(e, FirstViolation(e)) = "NestedParameterType") =>
         outcome.kind = "NestedParameterTypeException"

\* ------------------------------------------------------------------------
\* C16
\* ------------------------------------------------------------------------
\* C16: whenever transform ends without returning a pattern, whichever stage
\* detected the failure, the caller receives an exception of the base
\* expression error class or of a class derived from it; nothing else
\* escapes transform.
C16_FailuresAreExpressionErrors ==
  (pc = "done" /\ outcome.kind # "pattern") =>
     outcome.kind \in ExpressionExceptionClasses

\* ------------------------------------------------------------------------
\* C17
\* ------------------------------------------------------------------------
\* The expression breaks a depth rule somewhere or ends with a depth that is
\* not zero.
Unbalanced(e) ==
  \/ Violations(e) # {}
  \/ DepthBefore(e, Len(e), "{", "}") # 0
  \/ DepthBefore(e, Len(e), "(", ")") # 0

EndOfScanKinds == {"UnclosedParameterException", "UnclosedOptionalException"}

\* The outcome of an unbalanced expression is an error raised by the
\* validator, before the parser has consumed or emitted anything: at the
\* leftmost violation if there is one, at the end of the scan otherwise.
ValidatorErrorFirst ==
  LET e == expression
  IN  (pc = "done" /\ e # <<>> /\ Unbalanced(e)) =>
         /\ outcome.kind \in ExpressionExceptionClasses
         /\ ~outcome.wrapped
         /\ pos = 0 /\ result = <<>>
         /\ IF Violations(e) # {}
            THEN i = FirstViolation(e) /\ outcome.kind \notin EndOfScanKinds
            ELSE i = Len(e) /\ outcome.kind \in EndOfScanKinds

\* A step that consumes or emits text is taken only after the scan has run
\* over the whole expression and found it balanced.
TransformAfterValidation ==
  (pos' # pos \/ result' # result) =>
     /\ pc = "parse"
     /\ i = Len(expression)
     /\ braceDepth = 0 /\ parenDepth = 0
     /\ ~Unbalanced(expression)

\* C17: validation of the whole expression completes before any
\* transformation step; an unbalanced expression fails with the validator's
\* error even when an unknown parameter type or an empty optional stands
\* earlier in the text, and a depth violation at the leftmost offending
\* character is reported in preference to an end-of-scan imbalance.
C17_ValidationBeforeTransformation ==
  []ValidatorErrorFirst /\ [][TransformAfterValidation]_vars

\* {a}) : an unknown type stands before the unmatched parenthesis.
C17_Witness ==
  /\ pc = "done"
  /\ expression = <<"{", "a", "}", ")">>
  /\ outcome.kind = "UnmatchedClosingParenthesisException"
  /\ i = 3 /\ pos = 0

\* ------------------------------------------------------------------------
\* C18
\* ------------------------------------------------------------------------
SyntaxErrorKinds ==
  { "UnclosedParameterException", "UnclosedOptionalException",
    "UnmatchedClosingBraceException", "UnmatchedClosingParenthesisException" }

WellFormedEntries(defs) == {d \in defs : d.hasName /\ d.hasRegexp}

Defined(defs, name) == \E d \in WellFormedEntries(defs) : d.name = name

\* The fragment a lookup of name returns once defs has been merged into the
\* built-in table.
MergedFragment(defs, name) ==
  IF Defined(defs, name)
  THEN (CHOOSE d \in WellFormedEntries(defs) : d.name = name).regexp
  ELSE ExpectedFragment(name)

RenderingWith(defs, toks) ==
  Flatten([j \in 1..Len(toks) |->
             IF toks[j].t = "Param"
             THEN <<"(">> \o MergedFragment(defs, toks[j].text) \o <<")">>
             ELSE RenderToken(toks[j])], 1)

\* C19: with custom definitions supplied, an accepted expression of literal
\* text and parameters whose names are all built-in or defined by an entry
\* that has both its name and its regexp compiles to the pattern in which
\* each {name} is ( fragment ), the fragment of a custom name being its
\* regexp and that of a built-in name the built-in one; entries lacking a
\* field count for nothing.
C19_CustomTypesMerged ==
  LET toks == ExprTokens
  IN  (Accepted /\ pc = "done"
        /\ TokenKinds(toks) \subseteq {"Lit", "Param", "Space"}
        /\ \A j \in 1..Len(toks) :
             toks[j].t = "Param" =>
               toks[j].text \in BuiltinNames \/ Defined(customTypes, toks[j].text)) =>
         outcome = Returned(<<"^">> \o RenderingWith(customTypes, toks) \o <<"$">>)

\* ------------------------------------------------------------------------
\* C20
\* ------------------------------------------------------------------------
\* What transform(e) hands back when it is the only call of the process, for
\* an accepted e whose alternations are plain words.
AloneOutcome(e) ==
  LET toks == Tokens(e, 0)
      unknown == UnknownParams(toks)
      first == CHOOSE j \in unknown : \A m \in unknown : j <= m
  IN  IF unknown = {}
      THEN Returned(ExpectedPattern(e))
      ELSE Rethrown("UnknownParameterTypeException", "Unknown parameter type: {",
                    toks[first].text, -1)

\* A single call on an expression of ParallelInputs ends with AloneOutcome.
RunAlone ==
  (pc = "done" /\ expression \in ParallelInputs) => outcome = AloneOutcome(expression)

\* The locals of every call of the process, running or not.
AllCalls == {Context} \cup {others[c] : c \in DOMAIN others \ {thread}}

\* The table has been constructed at most once, and a constructed table is
\* the complete one.
InitialisedOnce ==
  /\ registry.inits <= 1
  /\ registry.state = "ready" => registry.inits = 1 /\ registry.table = PARAMETER_TYPES
  /\ (\E call \in AllCalls : call.pc = "done" /\ "Param" \in TokenKinds(Tokens(call.expression, 0)))
       => registry.state = "ready"

EachCallAsAlone ==
  \A call \in AllCalls : call.pc = "done" => call.outcome = AloneOutcome(call.expression)

NeverModified == registry.state = "ready" => registry' = registry

\* C20: with several calls of transform interleaved in any order, the first
\* of them racing for the construction of the table, the table is
\* constructed exactly once and as a whole, it never changes once it is
\* constructed, and every call ends with the outcome it has when it is the
\* only call.
C20_ParallelCalls ==
  /\ [](InitialisedOnce /\ EachCallAsAlone)
  /\ [][NeverModified]_vars

\* A call stands at its lookup while another call is constructing the table.
C20_Witness ==
  /\ AtLookup
  /\ registry.state = "initialising"
  /\ registry.by # thread
  /\ expression = <<"{", "i", "n", "t", "}">>
  /\ others[registry.by].expression = <<"{", "a", "}">>

\* ------------------------------------------------------------------------
\* C21
\* ------------------------------------------------------------------------
\* The number of backslashes standing directly in front of p[k].
BackslashRun(p, k) ==
  LET stops == {j \in 1..(k - 1) : p[j] # "\\"}
  IN  (k - 1) - (IF stops = {} THEN 0 ELSE CHOOSE j \in stops : \A m \in stops : j >= m)

\* The positions up to k at which p holds ch as syntax, not as an escaped
\* character.
UnescapedUpTo(p, k, ch) ==
  {j \in 1..k : p[j] = ch /\ BackslashRun(p, j) % 2 = 0}

\* Every ) of p closes a ( before it and every ( is closed.
GroupsBalanced(p) ==
  /\ \A k \in 1..Len(p) :
       Cardinality(UnescapedUpTo(p, k, "(")) >= Cardinality(UnescapedUpTo(p, k, ")"))
  /\ Cardinality(UnescapedUpTo(p, Len(p), "(")) = Cardinality(UnescapedUpTo(p, Len(p), ")"))

\* parse() has returned without an exception.
Transformed == Accepted /\ pc = "parse" /\ pos >= Len(expression)

\* C21: when the validator has accepted the expression and the transformer
\* has run to its end without an error, the anchored text has balanced,
\* well-nested unescaped parentheses, and transform never ends with the
\* error of the final regex check.
C21_CompilationErrorUnreachable ==
  /\ Transformed => GroupsBalanced(<<"^">> \o result \o <<"$">>)
  /\ pc = "done" => outcome.what # "Failed to create valid regex: "

\* ------------------------------------------------------------------------
\* C22
\* ------------------------------------------------------------------------
\* The character at (zero-based) index k stands behind an unescaped
\* backslash: the run of backslashes in front of it has odd length.
SkippedByRun(e, k) == BackslashRun(e, k + 1) % 2 = 1

CountedByRun(e, k, ch) == e[k + 1] = ch /\ ~SkippedByRun(e, k)

DepthByRun(e, k, opener, closer) ==
  Cardinality({j \in 0..(k - 1) : CountedByRun(e, j, opener)})
    - Cardinality({j \in 0..(k - 1) : CountedByRun(e, j, closer)})

\* No counted character breaks a depth rule and both depths end at zero.
BalancedByRun(e) ==
  /\ \A k \in 0..(Len(e) - 1) :
       /\ CountedByRun(e, k, "{") => DepthByRun(e, k, "{", "}") = 0
       /\ CountedByRun(e, k, "}") => DepthByRun(e, k, "{", "}") = 1
       /\ CountedByRun(e, k, ")") => DepthByRun(e, k, "(", ")") >= 1
  /\ DepthByRun(e, Len(e), "{", "}") = 0
  /\ DepthByRun(e, Len(e), "(", ")") = 0

\* C22: while it scans, the validator's depths count exactly the braces and
\* parentheses that do not stand behind an unescaped backslash, one behind
\* an escaped backslash (two backslashes) included; and a non-empty
\* expression whose braces and parentheses so counted balance is accepted.
C22_EscapedBackslashCounted ==
  /\ pc = "validate" =>
       /\ braceDepth = DepthByRun(expression, i, "{", "}")
       /\ parenDepth = DepthByRun(expression, i, "(", ")")
  /\ (pc = "done" /\ expression # <<>> /\ BalancedByRun(expression)) => Accepted

\* ------------------------------------------------------------------------
\* C23
\* ------------------------------------------------------------------------
\* transform got past its validation: the parser was constructed.
ValidatorAccepted ==
  \/ pc = "parse"
  \/ pc = "done" /\ (outcome.kind \in {"pattern", "undefined"} \/ outcome.wrapped)

\* C23: while the validator scans, braceDepth is 0 or 1 and parenDepth is
\* not negative, whatever its size; and a non-empty expression gets past the
\* validator exactly when the scan reached the end with both depths zero.
C23_DepthInvariants ==
  /\ pc = "validate" => braceDepth \in {0, 1} /\ parenDepth >= 0
  /\ (expression # <<>> /\ pc \in {"parse", "done"}) =>
       (ValidatorAccepted <=> (i = Len(expression) /\ braceDepth = 0 /\ parenDepth = 0))

\* The scan stands behind three open parentheses and an open brace.
C23_Witness ==
  /\ pc = "validate"
  /\ expression = <<"(", "(", "(", "{">>
  /\ i = 4
  /\ parenDepth = 3
  /\ braceDepth = 1

\* ------------------------------------------------------------------------
\* C24
\* ------------------------------------------------------------------------
\* The parser stands at a separator that is not the first character.
AtSeparator ==
  /\ pc = "parse" /\ pos < Len(expression)
  /\ pos > 0
  /\ expression[pos + 1] = "/"

\* The alternatives the parser collects at the separator it stands at.
CollectedHere ==
  collectAlternativesFromHere(expression, pos - 1, Backtrack(expression, pos - 1, <<>>)).alternatives

NoOpStep ==
  (AtSeparator /\ Len(CollectedHere) < 2 /\ callVars' # callVars /\ thread' = thread) =>
     /\ result' = result
     /\ pc' = "parse" /\ outcome' = outcome
     /\ pos' > pos /\ pos' <= Len(expression)

ReservedKinds ==
  { "NestedOptionalException", "AlternationInOptionalException",
    "EmptyAlternativeException", "OptionalParameterTypeException" }

\* A nested optional, an alternation inside an optional, an empty
\* alternative and a parameter inside an optional.
ReservedExamples ==
  { <<"(", "a", "(", "b", ")", "c", ")">>,
    <<"t", "e", "s", "t", " ", "(", "a", "/", "b", ")">>,
    <<"t", "e", "s", "t", "/", "/", "o", "t", "h", "e", "r">>,
    <<"(", "{", "i", "n", "t", "}", ")">> }

C27_ReadsInRange ==
  /\ ~oob
  /\ (pc = "parse" /\ pos < Len(expression) /\ expression[pos + 1] = "/") =>
       /\ pos - 1 \in 0..(Len(expression) - 1)
       /\ pos > 0 => result # <<>>

\* ------------------------------------------------------------------------
\* C26
\* ------------------------------------------------------------------------
\* A step of the parser's loop after which the loop goes on.
DispatchStep == pc = "parse" /\ pc' = "parse" /\ callVars' # callVars /\ thread' = thread

CursorForward == DispatchStep => (pos' > pos /\ pos' <= Len(expression))

EndsWithPatternOrError ==
  pc = "done" => outcome.kind \in {"pattern"} \cup ExpressionExceptionClasses

\* C26: every step of the parser's loop moves the cursor strictly forward
\* and not beyond the end of the expression, and every call of transform
\* comes to its end, with a pattern or with an error.
C26_Terminates ==
  /\ [][CursorForward]_vars
  /\ []EndsWithPatternOrError
  /\ <>(pc = "done")

\* ------------------------------------------------------------------------
\* C28
\* ------------------------------------------------------------------------
\* The positions of p, in ascending order, at which a capturing group opens:
\* an unescaped ( that no ? follows.
CapturingOpens(p) ==
  {k \in UnescapedUpTo(p, Len(p), "(") : k = Len(p) \/ p[k + 1] # "?"}

\* The k-th smallest element of the set S of numbers.
Nth(S, k) == CHOOSE x \in S : Cardinality({y \in S : y <= x}) = k

\* The names of the parameters of toks, from left to right.
ParamNames(toks) ==
  LET at == {j \in 1..Len(toks) : toks[j].t = "Param"}
  IN  [k \in 1..Cardinality(at) |-> toks[Nth(at, k)].text]

\* The number of capturing groups the parameters in front of the k-th one
\* account for: one each, and those inside their fragments.
RECURSIVE GroupsBefore(_, _)
GroupsBefore(names, k) ==
  IF k <= 1 THEN 0
  ELSE GroupsBefore(names, k - 1) + 1
         + Cardinality(CapturingOpens(ExpectedFragment(names[k - 1])))

\* C28: a returned pattern holds one capturing group ( fragment ) for each
\* {name} of the expression and no other, in the order of the parameters.
C28_OneGroupPerParameter ==
  LET names == ParamNames(ExprTokens)
      p == outcome.value
      opens == CapturingOpens(p)
      n == Len(names)
  IN  (Accepted /\ ReturnedPattern) =>
         /\ Cardinality(opens) = GroupsBefore(names, n + 1)
         /\ \A k \in 1..n :
              LET at == Nth(opens, GroupsBefore(names, k) + 1)
                  group == <<"(">> \o ExpectedFragment(names[k]) \o <<")">>
              IN  /\ at + Len(group) - 1 <= Len(p)
                  /\ SubSeq(p, at, at + Len(group) - 1) = group

\* ------------------------------------------------------------------------
\* C29
\* ------------------------------------------------------------------------
OnlySeparatorsConsumed ==
  (AtSeparator /\ Len(CollectedHere) < 2 /\ callVars' # callVars /\ thread' = thread
     /\ result' = result) =>
       \A k \in pos..(pos' - 1) : expression[k + 1] = "/"

\* C29: a step of alternation handling that leaves the buffer as it was
\* moves the cursor over separators only, so that every other character of
\* the expression is still rendered by a later step.
C29_NoOpConsumesSeparatorOnly == [][OnlySeparatorsConsumed]_vars

\* ------------------------------------------------------------------------
\* C30
\* ------------------------------------------------------------------------
IsPrefix(a, b) == Len(a) <= Len(b) /\ SubSeq(b, 1, Len(a)) = a

\* The buffer up to and including its last space, empty when it holds none.
UpToLastSpace(r) ==
  LET spaces == {k \in 1..Len(r) : r[k] = " "}
  IN  IF spaces = {} THEN <<>>
      ELSE SubSeq(r, 1, CHOOSE k \in spaces : \A m \in spaces : k >= m)

BufferStep ==
  thread' = thread =>
    /\ ~(pc = "parse" /\ pos < Len(expression) /\ expression[pos + 1] = "/") =>
         IsPrefix(result, result')
    /\ IsPrefix(UpToLastSpace(result), result')

\* C30: a step that is not alternation handling only appends to the output
\* buffer, and alternation handling keeps at least the buffer up to and
\* including its last space; so what stands in the buffer up to an emitted
\* space stays as it is.
C30_OutputPrefixStable == [][BufferStep]_vars

\* a b c/d behind its alternation: c has been replaced, a b has been kept.
C30_Witness ==
  /\ expression = <<"a", " ", "b", " ", "c", "/", "d">>
  /\ pc = "parse"
  /\ pos = 7
  /\ result = <<"a", " ", "b", " ", "(", "?", ":", "c", "|", "d", ")">>

====
